---- MODULE Spec2Model ----
(***************************************************************************)
(* APIController (api-tools-ts 2.x): the registration registries, the      *)
(* pipeline composed at startServer, and the listener lifecycle.            *)
(*                                                                         *)
(* The controller sits on express and node's http.Server.  What the        *)
(* controller hands to them is modelled as data: `app` is the express      *)
(* application's layer stack, `router` the Router's stack of route layers, *)
(* `routerParams` the Router's param callbacks, `servers` the http.Server  *)
(* handles created by app.listen.  A request is dispatched over these      *)
(* stacks the way express walks them.                                      *)
(***************************************************************************)
EXTENDS Integers, Sequences, FiniteSets, TLC

VARIABLES
    endpoints,        \* this.endpoints: Map "METHOD path" -> callback, in insertion order
    router,           \* this.router: the route layers, in registration order
    routerParams,     \* this.router's param callbacks (router.param)
    middlewares,      \* this.middlewares: Map id -> callback, in insertion order
    parameters,       \* this.parameters: Map name -> callback, in insertion order
    app,              \* this.app: the application's layer stack
    config,           \* this.config (the part startServer reads and writes)
    isServerStarted,  \* this.isServerStarted
    server,           \* this.server: 0 is null, else an index of servers
    connections,      \* this.connections: Set<Socket>
    servers,          \* the http.Server handles created by app.listen, oldest first
    sockets,          \* the transport connections accepted so far
    stops,            \* the timers and the promise of every stopServer call accepted
    last              \* the latest call on the controller, or request, and its outcome

vars == <<endpoints, router, routerParams, middlewares, parameters, app, config,
          isServerStarted, server, connections, servers, sockets, stops, last>>

registries == <<endpoints, router, middlewares, parameters>>

----------------------------------------------------------------------------
(* Bounds of the model *)

MaxRegistrations == 1
MaxServers == 2
MaxSockets == 2
MaxStops == 2
MaxRoutes == 3
MaxRegistryServers == 1
MaxRegistryStops == 1
MaxPipelineRegistrations == 3
MaxPipelineServers == 2
MaxPipelineStops == 1
MaxShutdownServers == 2
MaxShutdownStops == 2
MaxShutdownSockets == 3
MaxObserverServers == 2
MaxObserverStops == 1
MaxObserverSockets == 1
MaxLegacyRoutes == 2
MaxLegacyServers == 1
MaxBulkRoutes == 3
MaxBulkServers == 1
MaxServeRegistrations == 2
MaxServeServers == 1

----------------------------------------------------------------------------
(* Errors (Utils/ControllerErrors.ts) *)

CONTROLLER_ERROR == "ControllerError"
ENDPOINT_ERROR == "EndpointError"
METHOD_ERROR == "MethodError"
CALLBACK_ERROR == "CallbackFunctionError"
MIDDLEWARE_ERROR == "MiddleWareError"
PARAMETER_ERROR == "ParameterError"
SERVER_ERROR == "ServerError"
\* what a call of a member the class does not have throws
TYPE_ERROR == "TypeError"
NoError == "none"

----------------------------------------------------------------------------
(* Inputs.  A path is the sequence of its characters; a callback is a name, *)
(* and NotAFunction stands for any value that is not callable.              *)

Root == <<"/">>
ValidPaths == {<<"/", "a">>}
ParamPaths == {<<"/", ":id">>}
PathInputs == ValidPaths \cup ParamPaths \cup {<<>>, <<"a">>}
RequestPaths == {<<"/", "a">>, <<"/", "42">>}
MethodInputs == {"get", "post", "GET"}
Handlers == {"h1", "h2"}
NotAFunction == "notAFunction"
CallbackInputs == Handlers \cup {NotAFunction}
RouteMiddlewareInputs == {<<>>, <<"rm">>}
MiddlewareIds == {"m1", "m2"}
MiddlewareIdInputs == MiddlewareIds \cup {""}
MiddlewareFns == {"f1"}
ParamNames == {"id"}
ParamNameInputs == ParamNames \cup {""}
ParamFns == {"v1"}
\* the argument of startServer: absent, an object carrying the flag, or a string
Undefined == [type |-> "undefined", flag |-> "undefined"]
\* startServer({ useDefaultMiddlewares: flag })
LegacyObject(flag) == [type |-> "object", flag |-> flag]
\* startServer(flag): the string form of the first releases
LegacyString(flag) == [type |-> "string", flag |-> flag]
LegacyConfigs == {Undefined, LegacyObject("true"), LegacyObject("false")}
LegacyStrings == {LegacyString("true"), LegacyString("false")}
RequestMethods == {"get", "post"}
\* an argument that should be an array: the array of its items, or some other value
Array(items) == [isArray |-> TRUE, items |-> items]
NotAnArray == [isArray |-> FALSE, items |-> <<>>]
MethodArrayInputs ==
    {Array(a) : a \in {<<>>, <<"get">>, <<"post">>, <<"get", "post">>,
                       <<"get", "get">>, <<"get", "GET">>}}
CallbackArrayInputs ==
    {Array(a) : a \in {<<>>, <<"h1">>, <<"h2">>, <<"h1", "h2">>, <<"h2", "h1">>,
                       <<"h1", NotAFunction>>}} \cup {NotAnArray}

----------------------------------------------------------------------------
(* JavaScript Map: insertion-ordered; set() on a present key keeps its place *)

MapHas(m, k) == \E i \in 1..Len(m) : m[i].key = k

MapGet(m, k) == m[CHOOSE i \in 1..Len(m) : m[i].key = k].val
\* a map whose set always adds an entry, also for a key it holds
MapSetAppend(m, k, v) == Append(m, [key |-> k, val |-> v])


MapSet(m, k, v) ==
    IF MapHas(m, k)
    THEN [i \in 1..Len(m) |-> IF m[i].key = k THEN [key |-> k, val |-> v] ELSE m[i]]
    ELSE Append(m, [key |-> k, val |-> v])

MapKeys(m) == [i \in 1..Len(m) |-> m[i].key]

MapValues(m) == [i \in 1..Len(m) |-> m[i].val]

----------------------------------------------------------------------------
(* Validation helpers *)

validMethods == {"get", "post", "put", "delete", "patch", "options", "head"}

toUpperCase ==
    [m \in validMethods \cup MethodInputs |->
        CASE m = "get" -> "GET"
          [] m = "post" -> "POST"
          [] m = "put" -> "PUT"
          [] m = "delete" -> "DELETE"
          [] m = "patch" -> "PATCH"
          [] m = "options" -> "OPTIONS"
          [] m = "head" -> "HEAD"
          [] OTHER -> m]

isFunction(callback) == callback # NotAFunction

\* validateHTTPMethod: the error it throws, or none
validateHTTPMethod(method) ==
    IF method \notin validMethods THEN METHOD_ERROR ELSE NoError

\* a validateEndpoint that only refuses the empty path
validateEndpointNonEmpty(endpoint) ==
    IF Len(endpoint) = 0 THEN ENDPOINT_ERROR ELSE NoError

\* validateEndpoint: the error it throws, or none
validateEndpoint(endpoint) ==
    IF Len(endpoint) = 0 THEN ENDPOINT_ERROR
    ELSE IF Head(endpoint) # "/" THEN ENDPOINT_ERROR
    ELSE NoError

\* validateCallback: the error it throws, or none
validateCallback(callback, errorType) ==
    IF ~isFunction(callback) THEN errorType ELSE NoError

\* the key addEndpoint files an endpoint under: `${method.toUpperCase()} ${endpoint}`
fullPath(method, endpoint) == <<toUpperCase[method], " ">> \o endpoint

----------------------------------------------------------------------------
(* Route registry *)
\* the checks of addEndpoint without the one on isServerStarted
addEndpointErrorUnfrozen(endpoint, method, callback) ==
    IF validateEndpoint(endpoint) # NoError THEN validateEndpoint(endpoint)
    ELSE IF validateHTTPMethod(method) # NoError THEN validateHTTPMethod(method)
    ELSE IF validateCallback(callback, CALLBACK_ERROR) # NoError THEN CALLBACK_ERROR
    ELSE NoError

\* the checks of addEndpoint with another error kind for a started server
addEndpointErrorServerKind(endpoint, method, callback) ==
    IF validateEndpoint(endpoint) # NoError THEN validateEndpoint(endpoint)
    ELSE IF validateHTTPMethod(method) # NoError THEN validateHTTPMethod(method)
    ELSE IF validateCallback(callback, CALLBACK_ERROR) # NoError THEN CALLBACK_ERROR
    ELSE IF isServerStarted THEN SERVER_ERROR
    ELSE NoError

\* addEndpoint's checks, in the order the code makes them: the error thrown, or none
addEndpointError(endpoint, method, callback) ==
    IF validateEndpoint(endpoint) # NoError THEN validateEndpoint(endpoint)
    ELSE IF validateHTTPMethod(method) # NoError THEN validateHTTPMethod(method)
    ELSE IF validateCallback(callback, CALLBACK_ERROR) # NoError THEN CALLBACK_ERROR
    ELSE IF isServerStarted THEN CONTROLLER_ERROR
    ELSE NoError

\* this.router.route(endpoint)[method](...handlers): a new route layer at the end
routerRoute(stack, endpoint, method, handlers) ==
    Append(stack, [path |-> endpoint, method |-> method, handlers |-> handlers])

\* addEndpoint on the pair reg = (endpoints, router); reg.err is what it threw
addEndpointTo(reg, endpoint, method, callback, mws) ==
    LET err == addEndpointError(endpoint, method, callback) IN
    IF err # NoError
    THEN [reg EXCEPT !.err = err]
    ELSE [endpoints |-> MapSet(reg.endpoints, fullPath(method, endpoint), callback),
          router |-> routerRoute(reg.router, endpoint, method, mws \o <<callback>>),
          err |-> NoError]

\* callbacks[index]: undefined, which is not callable, past the end of the array
elementAt(array, index) == IF index <= Len(array) THEN array[index] ELSE NotAFunction

\* the forEach of addMultipleMethods from index i on; a throw ends the loop and
\* keeps what the earlier iterations registered
RECURSIVE addMultipleLoop(_, _, _, _, _)
addMultipleLoop(reg, endpoint, methods, callbacks, i) ==
    IF i > Len(methods) THEN reg
    ELSE IF validateHTTPMethod(methods[i]) # NoError
         THEN [reg EXCEPT !.err = METHOD_ERROR]
    ELSE IF validateCallback(elementAt(callbacks, i), CALLBACK_ERROR) # NoError
         THEN [reg EXCEPT !.err = CALLBACK_ERROR]
    ELSE LET r == addEndpointTo(reg, endpoint, methods[i], elementAt(callbacks, i), <<>>)
         IN IF r.err # NoError THEN r
            ELSE addMultipleLoop(r, endpoint, methods, callbacks, i + 1)
\* the checks of addMultipleMethods without the comparison of the two lengths
addMultipleMethodsErrorAnyLength(endpoint, methods, callbacks) ==
    IF validateEndpoint(endpoint) # NoError THEN validateEndpoint(endpoint)
    ELSE IF ~methods.isArray \/ Len(methods.items) = 0 THEN METHOD_ERROR
    ELSE IF ~callbacks.isArray THEN CALLBACK_ERROR
    ELSE NoError

\* the checks addMultipleMethods makes before its loop: the error thrown, or none
addMultipleMethodsError(endpoint, methods, callbacks) ==
    IF validateEndpoint(endpoint) # NoError THEN validateEndpoint(endpoint)
    ELSE IF ~methods.isArray \/ Len(methods.items) = 0 THEN METHOD_ERROR
    ELSE IF ~callbacks.isArray \/ Len(callbacks.items) # Len(methods.items)
         THEN CALLBACK_ERROR
    ELSE NoError

addMultipleMethodsTo(reg, endpoint, methods, callbacks) ==
    LET err == addMultipleMethodsError(endpoint, methods, callbacks) IN
    IF err # NoError
    THEN [reg EXCEPT !.err = err]
    ELSE addMultipleLoop(reg, endpoint, methods.items, callbacks.items, 1)

thisRegistry == [endpoints |-> endpoints, router |-> router, err |-> NoError]

NoResponse == [log |-> <<>>, status |-> 0]

Call(op, err, args) == [op |-> op, err |-> err, args |-> args, res |-> NoResponse]

addEndpoint(endpoint, method, callback, mws) ==
    LET r == addEndpointTo(thisRegistry, endpoint, method, callback, mws) IN
    /\ endpoints' = r.endpoints
    /\ router' = r.router
    /\ last' = Call("addEndpoint", r.err, <<endpoint, method, callback, mws>>)
    /\ UNCHANGED <<routerParams, middlewares, parameters, app, config,
                   isServerStarted, server, connections, servers, sockets, stops>>

addMultipleMethods(endpoint, methods, callbacks) ==
    LET r == addMultipleMethodsTo(thisRegistry, endpoint, methods, callbacks) IN
    /\ endpoints' = r.endpoints
    /\ router' = r.router
    /\ last' = Call("addMultipleMethods", r.err, <<endpoint, methods, callbacks>>)
    /\ UNCHANGED <<routerParams, middlewares, parameters, app, config,
                   isServerStarted, server, connections, servers, sockets, stops>>

\* getEndpoints(): the keys of the endpoint map, in insertion order
getEndpoints == MapKeys(endpoints)

----------------------------------------------------------------------------
(* Middleware chain and parameter validators *)

DefaultMiddlewareIds == {"morgan", "helmet", "cors"}

userMiddlewareCount(m) == Cardinality({i \in 1..Len(m) : m[i].key \notin DefaultMiddlewareIds})

\* the checks of addMiddleware with the error kind addEndpoint uses for a callback
addMiddlewareErrorCallbackKind(middlewareId, callback) ==
    IF middlewareId = "" THEN MIDDLEWARE_ERROR
    ELSE IF validateCallback(callback, CALLBACK_ERROR) # NoError THEN CALLBACK_ERROR
    ELSE NoError

\* addMiddleware's checks: the error thrown, or none
addMiddlewareError(middlewareId, callback) ==
    IF middlewareId = "" THEN MIDDLEWARE_ERROR
    ELSE IF validateCallback(callback, MIDDLEWARE_ERROR) # NoError THEN MIDDLEWARE_ERROR
    ELSE NoError

addMiddleware(middlewareId, callback) ==
    LET err == addMiddlewareError(middlewareId, callback) IN
    /\ middlewares' = IF err = NoError
                      THEN MapSet(middlewares, middlewareId, callback)
                      ELSE middlewares
    /\ last' = Call("addMiddleware", err, <<middlewareId, callback>>)
    /\ UNCHANGED <<endpoints, router, routerParams, parameters, app, config,
                   isServerStarted, server, connections, servers, sockets, stops>>

addParamCheckerError(param, callback) ==
    IF param = "" THEN PARAMETER_ERROR
    ELSE IF validateCallback(callback, PARAMETER_ERROR) # NoError THEN PARAMETER_ERROR
    ELSE NoError

addParamChecker(param, callback) ==
    LET err == addParamCheckerError(param, callback) IN
    /\ parameters' = IF err = NoError
                     THEN MapSet(parameters, param, callback)
                     ELSE parameters
    /\ last' = Call("addParamChecker", err, <<param, callback>>)
    /\ UNCHANGED <<endpoints, router, routerParams, middlewares, app, config,
                   isServerStarted, server, connections, servers, sockets, stops>>

----------------------------------------------------------------------------
(* addRoutes *)

\* a field of a RouteDefinition that holds one value where an array may stand
Single(value) == [isArray |-> FALSE, items |-> <<value>>]

RouteDefinition(path, method, handler, mws) ==
    [path |-> path, method |-> method, handler |-> handler, middlewares |-> mws]

\* addRoutes' branch for an array of methods: a handler that is no array is wrapped
callbacksOf(route) ==
    IF route.handler.isArray THEN route.handler ELSE Array(route.handler.items)

\* addRoutes' branch for one method: handler[0] of an array, else the handler
callbackOf(route) ==
    IF route.handler.isArray
    THEN elementAt(route.handler.items, 1)
    ELSE route.handler.items[1]
\* a bulk registration that binds every method of a definition to its first handler
addRouteToFirstHandler(reg, route) ==
    IF route.method.isArray
    THEN addMultipleMethodsTo(reg, route.path, route.method,
            Array([i \in 1..Len(route.method.items) |-> callbackOf(route)]))
    ELSE addEndpointTo(reg, route.path, route.method.items[1], callbackOf(route),
                       route.middlewares)

\* the body of addRoutes' forEach for one definition
addRouteTo(reg, route) ==
    IF route.method.isArray
    THEN addMultipleMethodsTo(reg, route.path, route.method, callbacksOf(route))
    ELSE addEndpointTo(reg, route.path, route.method.items[1], callbackOf(route),
                       route.middlewares)

\* routes.forEach from index i on; a throw ends it and keeps the earlier definitions
RECURSIVE addRoutesLoop(_, _, _)
addRoutesLoop(reg, routes, i) ==
    IF i > Len(routes) THEN reg
    ELSE LET r == addRouteTo(reg, routes[i]) IN
         IF r.err # NoError THEN r ELSE addRoutesLoop(r, routes, i + 1)

addRoutes(routes) ==
    LET r == addRoutesLoop(thisRegistry, routes, 1) IN
    /\ endpoints' = r.endpoints
    /\ router' = r.router
    /\ last' = Call("addRoutes", r.err, <<routes>>)
    /\ UNCHANGED <<routerParams, middlewares, parameters, app, config,
                   isServerStarted, server, connections, servers, sockets, stops>>

----------------------------------------------------------------------------
(* Legacy entry points *)

\* AddEndPoint: this.addEndpoint(endpoint, method, callback)
AddEndPoint(endpoint, method, callback) ==
    LET r == addEndpointTo(thisRegistry, endpoint, method, callback, <<>>) IN
    /\ endpoints' = r.endpoints
    /\ router' = r.router
    /\ last' = Call("AddEndPoint", r.err, <<endpoint, method, callback>>)
    /\ UNCHANGED <<routerParams, middlewares, parameters, app, config,
                   isServerStarted, server, connections, servers, sockets, stops>>

\* AddMultipleMethods: its own Array.isArray(callback) test, then addMultipleMethods
AddMultipleMethods(endpoint, method, callback) ==
    LET r == IF ~callback.isArray
             THEN [thisRegistry EXCEPT !.err = CALLBACK_ERROR]
             ELSE addMultipleMethodsTo(thisRegistry, endpoint, method, callback) IN
    /\ endpoints' = r.endpoints
    /\ router' = r.router
    /\ last' = Call("AddMultipleMethods", r.err, <<endpoint, method, callback>>)
    /\ UNCHANGED <<routerParams, middlewares, parameters, app, config,
                   isServerStarted, server, connections, servers, sockets, stops>>

\* AddMiddleWare: this.addMiddleware(middlewareId, callback)
AddMiddleWare(middlewareId, callback) ==
    LET err == addMiddlewareError(middlewareId, callback) IN
    /\ middlewares' = IF err = NoError
                      THEN MapSet(middlewares, middlewareId, callback)
                      ELSE middlewares
    /\ last' = Call("AddMiddleWare", err, <<middlewareId, callback>>)
    /\ UNCHANGED <<endpoints, router, routerParams, parameters, app, config,
                   isServerStarted, server, connections, servers, sockets, stops>>

\* AddParamChecker: this.addParamChecker(param, callback)
AddParamChecker(param, callback) ==
    LET err == addParamCheckerError(param, callback) IN
    /\ parameters' = IF err = NoError
                     THEN MapSet(parameters, param, callback)
                     ELSE parameters
    /\ last' = Call("AddParamChecker", err, <<param, callback>>)
    /\ UNCHANGED <<endpoints, router, routerParams, middlewares, app, config,
                   isServerStarted, server, connections, servers, sockets, stops>>

----------------------------------------------------------------------------
(* Dispatch composer: what startServer hands to express *)

UseLayer(fn) == [kind |-> "use", fn |-> fn]
RouterLayer == [kind |-> "router", fn |-> "router"]
ErrorLayer == [kind |-> "error", fn |-> "errorHandler"]
NotFoundLayer == [kind |-> "notFound", fn |-> "notFound"]

\* setupBaseMiddlewares (the constructor): express.json, express.urlencoded
setupBaseMiddlewares == <<UseLayer("express.json"), UseLayer("express.urlencoded")>>

\* applyDefaultMiddlewares: Map.set of the three reserved ids, when the toggle is on
applyDefaultMiddlewares(mws, useDefaultMiddlewares) ==
    IF useDefaultMiddlewares
    THEN MapSet(MapSet(MapSet(mws, "morgan", "morgan"), "helmet", "helmet"), "cors", "cors")
    ELSE mws

\* registerAllMiddlewares: app.use(callback) for every entry of the map, in map order
registerAllMiddlewares(stack, mws) ==
    stack \o [i \in 1..Len(mws) |-> UseLayer(mws[i].val)]

\* registerAllParamCheckers: router.param(param, callback) for every entry; express
\* appends the callback to the callbacks the router already holds for that name
registerAllParamCheckers(params, checkers) ==
    params \o [i \in 1..Len(checkers) |-> [name |-> checkers[i].key, fn |-> checkers[i].val]]

\* setupRouting's app.use(mainEndPoint, router), then addErrorHandling
setupRoutingAndErrorHandling(stack) ==
    stack \o <<RouterLayer, ErrorLayer, NotFoundLayer>>

\* legacyConfig?.useDefaultMiddlewares: only an object argument has the property
optionalProperty(legacyConfig) ==
    IF legacyConfig.type = "object" THEN legacyConfig.flag ELSE "undefined"

\* the legacy flag of startServer: a given flag replaces the configured toggle
legacyToggle(cfg, legacyConfig) ==
    IF optionalProperty(legacyConfig) # "undefined"
    THEN [cfg EXCEPT !.useDefaultMiddlewares = (optionalProperty(legacyConfig) = "true")]
    ELSE cfg

----------------------------------------------------------------------------
(* Dispatch of one request, as express walks the stacks.  Middlewares and   *)
(* validators call next(); a route's last handler writes the response; the  *)
(* functions named in behaviour throw, reject or end the response.         *)

isParamSegment(seg) == seg = ":id"

paramNameOf(seg) == IF seg = ":id" THEN "id" ELSE seg

matchPath(routePath, reqPath) ==
    /\ Len(routePath) = Len(reqPath)
    /\ \A i \in 1..Len(routePath) :
          \/ routePath[i] = reqPath[i]
          \/ isParamSegment(routePath[i]) /\ reqPath[i] # "/"

\* the callbacks router.param holds for the parameters of a route path, in call order
RECURSIVE paramCallbacks(_, _, _)
paramCallbacks(params, routePath, i) ==
    IF i > Len(routePath) THEN <<>>
    ELSE LET name == paramNameOf(routePath[i])
             mine == SelectSeq(params, LAMBDA e : e.name = name)
             here == IF isParamSegment(routePath[i])
                     THEN [k \in 1..Len(mine) |-> mine[k].fn]
                     ELSE <<>>
         IN here \o paramCallbacks(params, routePath, i + 1)

\* Route._handles_method: a HEAD request is served by a route registered for GET
handlesMethod(routeMethod, method) ==
    routeMethod = method \/ (method = "head" /\ routeMethod = "get")

matchingRoutes(stack, method, path) ==
    {j \in 1..Len(stack) :
        matchPath(stack[j].path, path) /\ handlesMethod(stack[j].method, method)}

\* the router: the first route layer that matches path and method handles the request
routerHandle(stack, params, method, path) ==
    LET hits == matchingRoutes(stack, method, path) IN
    IF hits = {} THEN [matched |-> FALSE, log |-> <<>>]
    ELSE LET j == CHOOSE x \in hits : \A y \in hits : x <= y IN
         [matched |-> TRUE,
          log |-> paramCallbacks(params, stack[j].path, 1) \o stack[j].handlers]

\* the methods the router lists in its automatic answer to an OPTIONS request: those
\* of the routes of the path, none of which handles OPTIONS
optionsOf(stack, path) ==
    {stack[j].method : j \in {k \in 1..Len(stack) : matchPath(stack[k].path, path)}}

\* what the functions of the model do when express calls them: a handler answers;
\* the named ones throw, return a promise that rejects, or answer in place of the
\* route; cors answers every OPTIONS request itself; every other function calls next()
behaviour(fn, method) ==
    CASE fn \in Handlers -> "respond"
      [] fn \in {"throwsDomain", "throwsOther", "mThrows"} -> "throw"
      [] fn = "rejects" -> "reject"
      [] fn = "denies" -> "end"
      [] fn = "cors" /\ method = "options" -> "end"
      [] OTHER -> "next"

NoErr == [instance |-> "none", message |-> "", errorCode |-> NoError, context |-> "none"]

\* the value a function of the model throws or rejects with
thrownBy(fn) ==
    CASE fn = "throwsDomain" ->
            [instance |-> "ControllerErrors", message |-> "Something went wrong",
             errorCode |-> CONTROLLER_ERROR, context |-> "endpoint"]
      [] fn = "mThrows" ->
            [instance |-> "ControllerErrors", message |-> "No token",
             errorCode |-> MIDDLEWARE_ERROR, context |-> "undefined"]
      [] OTHER ->
            [instance |-> "Error", message |-> "connect ECONNREFUSED db:5432",
             errorCode |-> "undefined", context |-> "undefined"]

Response(log, status, body) ==
    [log |-> log, status |-> status, body |-> body, raised |-> NoErr, escaped |-> NoErr]

NoBody == [error |-> FALSE]
\* an error stage that reports every error in full
errorStageVerbose(err) ==
    Response(<<"errorHandler">>, 400,
             [error |-> TRUE, message |-> err.message, code |-> err.errorCode,
              context |-> err.context])

\* the error middleware of addErrorHandling
errorStage(err) ==
    IF err.instance = "ControllerErrors"
    THEN Response(<<"errorHandler">>, 400,
                  [error |-> TRUE, message |-> err.message, code |-> err.errorCode,
                   context |-> err.context])
    ELSE Response(<<"errorHandler">>, 500,
                  [error |-> TRUE, message |-> "Internal server error"])
\* a 404 stage that lists nothing
notFoundStageEmpty(path, keys) ==
    Response(<<"notFound">>, 404,
             [error |-> TRUE, message |-> <<"Route">> \o path \o <<"not found">>,
              availableEndpoints |-> <<>>])

\* the app.use('*') stage of addErrorHandling; keys is Array.from(endpoints.keys())
notFoundStage(path, keys) ==
    Response(<<"notFound">>, 404,
             [error |-> TRUE, message |-> <<"Route">> \o path \o <<"not found">>,
              availableEndpoints |-> keys])

\* the functions of one layer, called in order until one does not call next()
RECURSIVE runChain(_, _, _)
runChain(fns, method, i) ==
    IF i > Len(fns) THEN [outcome |-> "next", log |-> fns, fn |-> ""]
    ELSE IF behaviour(fns[i], method) = "next" THEN runChain(fns, method, i + 1)
    ELSE [outcome |-> behaviour(fns[i], method), log |-> SubSeq(fns, 1, i), fn |-> fns[i]]

behind(log, res) == [res EXCEPT !.log = log \o @]

\* a function that threw: express hands the error to the layers behind it
threw(fn, res) == [res EXCEPT !.raised = thrownBy(fn)]

\* a function whose promise rejected: express 4 does not look at the promise, no
\* layer is called, nothing is written to the response, and the rejection is
\* unhandled, which ends the process on node 15 and later
unhandledRejection(log, fn) ==
    [log |-> log, status |-> 0, body |-> NoBody, raised |-> NoErr,
     escaped |-> thrownBy(fn)]

\* the application stack from layer i on; err is the error passed to next(), which
\* only an error middleware takes
RECURSIVE appHandle(_, _, _, _, _, _, _)
appHandle(stack, routes, params, method, path, i, err) ==
    IF i > Len(stack)
    THEN Response(<<>>, IF err = NoErr THEN 404 ELSE 500, NoBody)
    ELSE LET layer == stack[i]
             rest == appHandle(stack, routes, params, method, path, i + 1, err)
             chain == IF layer.kind = "use" THEN <<layer.fn>>
                      ELSE routerHandle(routes, params, method, path).log
             c == runChain(chain, method, 1)
             ran == CASE c.outcome = "respond" -> Response(c.log, 200, NoBody)
                      [] c.outcome = "end" -> Response(c.log, 204, NoBody)
                      [] c.outcome = "reject" -> unhandledRejection(c.log, c.fn)
                      [] c.outcome = "throw" ->
                            threw(c.fn, behind(c.log,
                                appHandle(stack, routes, params, method, path, i + 1,
                                          thrownBy(c.fn))))
                      [] OTHER -> behind(c.log, rest)
         IN CASE layer.kind = "use" -> IF err # NoErr THEN rest ELSE ran
              [] layer.kind = "router" ->
                    IF err # NoErr THEN rest
                    ELSE IF routerHandle(routes, params, method, path).matched THEN ran
                    ELSE IF method = "options" /\ optionsOf(routes, path) # {}
                         THEN Response(<<>>, 200, [allow |-> optionsOf(routes, path)])
                    ELSE rest
              [] layer.kind = "error" -> IF err = NoErr THEN rest ELSE errorStage(err)
              [] layer.kind = "notFound" ->
                    IF err # NoErr THEN rest
                    ELSE notFoundStage(path, MapKeys(endpoints))

Dispatch(method, path) ==
    appHandle(app, router, routerParams, method, path, 1, NoErr)

----------------------------------------------------------------------------
(* node's http.Server and net.Socket, as far as the controller drives them *)

\* an error object that drops the context it is given
ControllerErrorsWithoutContext(code, context) == [errorCode |-> code, context |-> "none"]

\* new ControllerErrors(message, code, context)
ControllerErrors(code, context) == [errorCode |-> code, context |-> context]

NoRejection == [errorCode |-> NoError, context |-> "none"]

\* the listener app.listen returns, with the promise of the startServer call that made
\* it and the value that promise was rejected with
Server(st) ==
    [st |-> st, tracking |-> FALSE, promise |-> "pending", rejection |-> NoRejection,
     closeCbs |-> <<>>, emit |-> FALSE]

Listening == {s \in 1..Len(servers) : servers[s].st = "listening"}

\* sockets holds the open connections: [id, srv], srv the server that accepted it
openSocketsOf(socks, s) == {k \in socks : k.srv = s}

socketIds(socks) == {k.id : k \in socks}

\* resolve / reject: only a pending promise takes the outcome
settle(promise, outcome) == IF promise = "pending" THEN outcome ELSE promise

\* server.close(cb) on servers[s].  A listening server stops accepting; on any other
\* the callback will be given ERR_SERVER_NOT_RUNNING.  'close' is emitted once no
\* connection of the server is open.  cancels: whether this build of node drops a
\* bind that is still pending when close() is called.
serverClose(srvs, socks, s, cbs, cancels) ==
    LET srv == srvs[s]
        marked == [i \in 1..Len(cbs) |-> [cbs[i] EXCEPT !.err = (srv.st # "listening")]]
    IN [srvs EXCEPT ![s] =
           [srv EXCEPT !.st = CASE srv.st = "listening" -> "closed"
                                [] srv.st = "binding" /\ cancels -> "cancelled"
                                [] OTHER -> srv.st,
                       !.closeCbs = @ \o marked,
                       !.emit = @ \/ (openSocketsOf(socks, s) = {})]]

\* a closeAllConnections whose destroy() calls leave every socket open
destroyNoSockets(srvs, socks, ids) == [sockets |-> socks, servers |-> srvs]

\* socket.destroy() on every socket of ids: the sockets are gone, and a server that
\* no longer listens and has lost its last connection emits 'close'
destroySockets(srvs, socks, ids) ==
    LET after == {k \in socks : k.id \notin ids}
    IN [sockets |-> after,
        servers |-> [s \in 1..Len(srvs) |->
                        IF /\ srvs[s].st # "listening"
                           /\ openSocketsOf(socks, s) # {}
                           /\ openSocketsOf(after, s) = {}
                        THEN [srvs[s] EXCEPT !.emit = TRUE]
                        ELSE srvs[s]]]

----------------------------------------------------------------------------
(* Lifecycle *)

Stop == [grace |-> "pending", force |-> "pending", promise |-> "pending"]

StopCallback(k) == [kind |-> "stop", stop |-> k, err |-> FALSE]
ForceCallback(k) == [kind |-> "force", stop |-> k, err |-> FALSE]

thisController ==
    [isServerStarted |-> isServerStarted, server |-> server,
     connections |-> connections, stops |-> stops]

\* a cleanup that keeps the reference to the listener
cleanupKeepsServer(c) == [c EXCEPT !.isServerStarted = FALSE, !.connections = {}]

\* cleanup(): isServerStarted = false, server = null, connections.clear()
cleanup(c) == [c EXCEPT !.isServerStarted = FALSE, !.server = 0, !.connections = {}]

\* the callback stopServer passes to server.close
onGracefulClose(c, k, err) ==
    LET cleared == [c EXCEPT !.stops[k].force =
                                 IF @ = "pending" THEN "cleared" ELSE @]
    IN IF err
       THEN [cleared EXCEPT !.stops[k].promise = settle(@, "rejected")]
       ELSE [cleanup(cleared) EXCEPT !.stops[k].promise = settle(@, "resolved")]

\* the callback the forced-shutdown timer passes to server.close
onForcedClose(c, k) == [cleanup(c) EXCEPT !.stops[k].promise = settle(@, "resolved")]

\* the listeners of one 'close' event, run in the order they were registered
RECURSIVE runCloseCallbacks(_, _, _)
runCloseCallbacks(c, cbs, i) ==
    IF i > Len(cbs) THEN c
    ELSE runCloseCallbacks(
             IF cbs[i].kind = "stop"
             THEN onGracefulClose(c, cbs[i].stop, cbs[i].err)
             ELSE onForcedClose(c, cbs[i].stop),
             cbs, i + 1)

\* a lifecycle call that throws: nothing but the outcome changes
rejected(op, err) ==
    /\ last' = Call(op, err, <<>>)
    /\ UNCHANGED <<endpoints, router, routerParams, middlewares, parameters, app,
                   config, isServerStarted, server, connections, servers, sockets,
                   stops>>

\* startServer past its guard: compose the pipeline, then app.listen
composeAndListen(legacyConfig) ==
    LET cfg == legacyToggle(config, legacyConfig)
        mws == applyDefaultMiddlewares(middlewares, cfg.useDefaultMiddlewares)
    IN /\ config' = cfg
       /\ middlewares' = mws
       /\ routerParams' = registerAllParamCheckers(routerParams, parameters)
       /\ app' = setupRoutingAndErrorHandling(registerAllMiddlewares(app, mws))
       /\ servers' = Append(servers, Server("binding"))
       /\ server' = Len(servers) + 1
       /\ last' = Call("startServer", "pending", <<>>)
       /\ UNCHANGED <<endpoints, router, parameters, isServerStarted,
                      connections, sockets, stops>>

startServerUnguarded(legacyConfig) == composeAndListen(legacyConfig)

startServer(legacyConfig) ==
    IF isServerStarted
    THEN rejected("startServer", SERVER_ERROR)
    ELSE composeAndListen(legacyConfig)

\* setupConnectionTracking: the 'connection' listener goes on whatever this.server is
setupConnectionTracking(srvs) ==
    IF server = 0 THEN srvs
    ELSE [srvs EXCEPT ![server].tracking = TRUE]

\* the listen callback of servers[s]: the bind succeeded (the port was free)
ListenCallback(s) ==
    /\ servers[s].st = "binding"
    /\ Listening = {}
    /\ isServerStarted' = TRUE
    /\ servers' = setupConnectionTracking(
                      [servers EXCEPT ![s].st = "listening",
                                      ![s].promise = settle(@, "resolved")])
    /\ UNCHANGED <<endpoints, router, routerParams, middlewares, parameters, app,
                   config, server, connections, sockets, stops, last>>

\* the 'error' event of servers[s]: the bind failed (the port is taken)
ListenError(s) ==
    /\ servers[s].st = "binding"
    /\ servers' = [servers EXCEPT
                      ![s].st = "failed",
                      ![s].promise = settle(@, "rejected"),
                      ![s].rejection = ControllerErrors(SERVER_ERROR, "originalError")]
    /\ UNCHANGED <<endpoints, router, routerParams, middlewares, parameters, app,
                   config, isServerStarted, server, connections, sockets, stops, last>>

\* a client connects to listening servers[s] and gets the socket id i; the
\* 'connection' listener, where one is installed, tracks it
Accept(s, i) ==
    /\ s \in Listening
    /\ i \notin socketIds(sockets)
    /\ \A j \in 1..(i - 1) : j \in socketIds(sockets)
    /\ sockets' = sockets \cup {[id |-> i, srv |-> s]}
    /\ connections' = IF servers[s].tracking
                      THEN connections \cup {i}
                      ELSE connections
    /\ UNCHANGED <<endpoints, router, routerParams, middlewares, parameters, app,
                   config, isServerStarted, server, servers, stops, last>>

\* socket i closes (the peer hangs up, or an error): the socket's listeners untrack it
SocketClose(i) ==
    /\ i \in socketIds(sockets)
    /\ LET d == destroySockets(servers, sockets, {i}) IN
          /\ sockets' = d.sockets
          /\ servers' = d.servers
    /\ connections' = connections \ {i}
    /\ UNCHANGED <<endpoints, router, routerParams, middlewares, parameters, app,
                   config, isServerStarted, server, stops, last>>

\* stopServer with a guard that looks at this.server only
stopServerOnHandleOnly(cancels) ==
    IF server = 0
    THEN rejected("stopServer", SERVER_ERROR)
    ELSE /\ stops' = Append(stops, Stop)
         /\ servers' = serverClose(servers, sockets, server,
                                   <<StopCallback(Len(stops) + 1)>>, cancels)
         /\ last' = Call("stopServer", "pending", <<>>)
         /\ UNCHANGED <<endpoints, router, routerParams, middlewares, parameters, app,
                        config, isServerStarted, server, connections, sockets>>

\* stopServer: rejected unless isServerStarted and this.server are both set; else
\* the promise with its two timers, and server.close(callback)
stopServer(cancels) ==
    IF ~isServerStarted \/ server = 0
    THEN rejected("stopServer", SERVER_ERROR)
    ELSE /\ stops' = Append(stops, Stop)
         /\ servers' = serverClose(servers, sockets, server,
                                   <<StopCallback(Len(stops) + 1)>>, cancels)
         /\ last' = Call("stopServer", "pending", <<>>)
         /\ UNCHANGED <<endpoints, router, routerParams, middlewares, parameters, app,
                        config, isServerStarted, server, connections, sockets>>

\* 'close' of servers[s]: every callback registered through close(cb) runs
CloseEvent(s) ==
    /\ servers[s].emit
    /\ LET c == runCloseCallbacks(thisController, servers[s].closeCbs, 1) IN
          /\ isServerStarted' = c.isServerStarted
          /\ server' = c.server
          /\ connections' = c.connections
          /\ stops' = c.stops
    /\ servers' = [servers EXCEPT ![s].emit = FALSE, ![s].closeCbs = <<>>]
    /\ UNCHANGED <<endpoints, router, routerParams, middlewares, parameters, app,
                   config, sockets, last>>

\* the 1 s timer of stop call k: closeAllConnections()
GraceTimer(k) ==
    /\ stops[k].grace = "pending"
    /\ \A j \in 1..(k - 1) : stops[j].grace # "pending"
    /\ LET d == destroySockets(servers, sockets, connections) IN
          /\ sockets' = d.sockets
          /\ servers' = d.servers
    /\ connections' = {}
    /\ stops' = [stops EXCEPT ![k].grace = "fired"]
    /\ UNCHANGED <<endpoints, router, routerParams, middlewares, parameters, app,
                   config, isServerStarted, server, last>>

\* the 10 s timer of stop call k: closeAllConnections(), then this.server!.close(cb);
\* with this.server null the member access throws inside the timer
ForceTimer(k, cancels) ==
    /\ stops[k].force = "pending"
    /\ stops[k].grace # "pending"
    /\ \A j \in 1..(k - 1) : stops[j].force # "pending"
    /\ LET d == destroySockets(servers, sockets, connections) IN
          /\ sockets' = d.sockets
          /\ servers' = IF server = 0 THEN d.servers
                        ELSE serverClose(d.servers, d.sockets, server,
                                         <<ForceCallback(k)>>, cancels)
    /\ connections' = {}
    /\ stops' = [stops EXCEPT ![k].force = IF server = 0 THEN "threw" ELSE "fired"]
    /\ UNCHANGED <<endpoints, router, routerParams, middlewares, parameters, app,
                   config, isServerStarted, server, last>>

forceStopServer(cancels) ==
    IF server = 0
    THEN rejected("forceStopServer", SERVER_ERROR)
    ELSE LET d == destroySockets(servers, sockets, connections)
             c == cleanup(thisController)
         IN /\ sockets' = d.sockets
            /\ servers' = serverClose(d.servers, d.sockets, server, <<>>, cancels)
            /\ isServerStarted' = c.isServerStarted
            /\ server' = c.server
            /\ connections' = c.connections
            /\ last' = Call("forceStopServer", NoError, <<>>)
            /\ UNCHANGED <<endpoints, router, routerParams, middlewares, parameters,
                           app, config, stops>>

\* what close() may do to a pending bind: only a server still binding leaves a choice
Cancels == IF server # 0 /\ servers[server].st = "binding" THEN BOOLEAN ELSE {FALSE}

Request(method, path) ==
    /\ Listening # {}
    /\ last' = [op |-> "request", err |-> NoError, args |-> <<method, path>>,
                res |-> Dispatch(method, path)]
    /\ UNCHANGED <<endpoints, router, routerParams, middlewares, parameters, app,
                   config, isServerStarted, server, connections, servers, sockets,
                   stops>>

\* the class declares no restartServer: api.restartServer() reads undefined and the
\* call throws a TypeError before any code of the controller runs
restartServer == rejected("restartServer", TYPE_ERROR)

\* an observer returns a value and touches nothing
Return(op, value) ==
    /\ last' = [op |-> op, err |-> NoError, args |-> <<>>,
                res |-> [log |-> <<>>, status |-> 0, value |-> value]]
    /\ UNCHANGED <<endpoints, router, routerParams, middlewares, parameters, app,
                   config, isServerStarted, server, connections, servers, sockets,
                   stops>>

\* a getServerInfo that needs a started server
getServerInfoWhenRunning ==
    IF isServerStarted
    THEN Return("getServerInfo", [isRunning |-> TRUE])
    ELSE rejected("getServerInfo", SERVER_ERROR)

\* getServerInfo(): port, hostname and mainEndPoint are fixed at construction
getServerInfo == Return("getServerInfo", [isRunning |-> isServerStarted])

\* getEndpoints(): Array.from(this.endpoints.keys())
getEndpointsCall == Return("getEndpoints", getEndpoints)

\* getActiveConnections(): this.connections.size
getActiveConnections == Return("getActiveConnections", Cardinality(connections))

----------------------------------------------------------------------------
(* The state after construction; useDefaultMiddlewares is the caller's choice *)

InitWith(toggles) ==
    /\ endpoints = <<>>
    /\ router = <<>>
    /\ routerParams = <<>>
    /\ middlewares = <<>>
    /\ parameters = <<>>
    /\ app = setupBaseMiddlewares
    /\ config \in {[useDefaultMiddlewares |-> b] : b \in toggles}
    /\ isServerStarted = FALSE
    /\ server = 0
    /\ connections = {}
    /\ servers = <<>>
    /\ sockets = {}
    /\ stops = <<>>
    /\ last = Call("constructor", NoError, <<>>)

\* how much has been registered: routes, user middlewares and validators
registrations == Len(router) + userMiddlewareCount(middlewares) + Len(parameters)

\* the steps of node's event loop and of the clients, with at most maxSockets
\* connections open at a time
Events(maxSockets) ==
    \/ \E s \in 1..Len(servers) : ListenCallback(s)
    \/ \E s \in 1..Len(servers) : ListenError(s)
    \/ \E s \in 1..Len(servers), i \in 1..maxSockets : Accept(s, i)
    \/ \E i \in 1..maxSockets : SocketClose(i)
    \/ \E s \in 1..Len(servers) : CloseEvent(s)
    \/ \E k \in 1..Len(stops) : GraceTimer(k)
    \/ \E k \in 1..Len(stops), cancels \in Cancels : ForceTimer(k, cancels)

----------------------------------------------------------------------------
(* Spec: the lifecycle under every interleaving, with one registration of   *)
(* each kind                                                               *)

Init == InitWith({TRUE})

Next ==
    \/ registrations < MaxRegistrations /\ addEndpoint(<<"/", "a">>, "get", "h1", <<>>)
    \/ registrations < MaxRegistrations
          /\ addMultipleMethods(<<"/", "a">>, Array(<<"get">>), Array(<<"h1">>))
    \/ registrations < MaxRegistrations /\ addMiddleware("m1", "f1")
    \/ registrations < MaxRegistrations /\ addParamChecker("id", "v1")
    \/ Len(servers) < MaxServers /\ startServer(Undefined)
    \/ \E cancels \in Cancels : Len(stops) < MaxStops /\ stopServer(cancels)
    \/ \E cancels \in Cancels : forceStopServer(cancels)
    \/ Request("get", <<"/", "a">>)
    \/ Events(MaxSockets)

Spec == Init /\ [][Next]_vars

----------------------------------------------------------------------------
(* SpecRegistry: the route registry under every order of registrations,    *)
(* valid and invalid, around one start and stop                            *)

RegistryEndpointInputs ==
    {<<<<"/", "a">>, "get", "h1", <<>>>>,
     <<<<"/", "a">>, "get", "h2", <<>>>>,
     <<<<"/", "a">>, "post", "h2", <<>>>>,
     <<<<>>, "get", "h1", <<>>>>,
     <<<<"a">>, "get", "h1", <<>>>>,
     <<<<"/", "a">>, "GET", "h1", <<>>>>,
     <<<<"/", "a">>, "get", NotAFunction, <<>>>>,
     <<<<>>, "GET", NotAFunction, <<>>>>,
     <<<<"/", "a">>, "GET", NotAFunction, <<>>>>}

RegistryMultipleInputs ==
    {<<<<"/", "a">>, Array(ms), Array(cbs)>> :
        <<ms, cbs>> \in {<<<<"get">>, <<"h1">>>>,
                         <<<<"get">>, <<"h2">>>>,
                         <<<<"get", "post">>, <<"h1", "h2">>>>,
                         <<<<"get", "post">>, <<"h2", "h1">>>>,
                         <<<<"get", "get">>, <<"h1", "h2">>>>,
                         <<<<"get">>, <<>>>>,
                         <<<<"get">>, <<"h1", "h2">>>>,
                         <<<<"get", "post">>, <<"h1">>>>,
                         <<<<>>, <<"h1">>>>,
                         <<<<>>, <<>>>>,
                         <<<<"get", "GET">>, <<"h1", "h2">>>>,
                         <<<<"get", "post">>, <<"h1", NotAFunction>>>>}}
    \cup {<<<<"/", "a">>, Array(<<"get">>), NotAnArray>>,
          <<<<>>, Array(<<"get">>), Array(<<"h1">>)>>,
          <<<<>>, Array(<<"get">>), Array(<<>>)>>}

NextRegistry ==
    \/ \E a \in RegistryEndpointInputs :
          Len(router) < MaxRoutes /\ addEndpoint(a[1], a[2], a[3], a[4])
    \/ \E a \in RegistryMultipleInputs :
          Len(router) + Len(a[2].items) <= MaxRoutes
             /\ addMultipleMethods(a[1], a[2], a[3])
    \/ Len(servers) < MaxRegistryServers /\ startServer(Undefined)
    \/ \E cancels \in Cancels : Len(stops) < MaxRegistryStops /\ stopServer(cancels)
    \/ \E cancels \in Cancels : forceStopServer(cancels)
    \/ \E m \in RequestMethods : Request(m, <<"/", "a">>)
    \/ \E s \in 1..Len(servers) : ListenCallback(s)
    \/ \E s \in 1..Len(servers) : ListenError(s)
    \/ \E s \in 1..Len(servers) : CloseEvent(s)
    \/ \E k \in 1..Len(stops) : GraceTimer(k)
    \/ \E k \in 1..Len(stops), cancels \in Cancels : ForceTimer(k, cancels)

SpecRegistry == Init /\ [][NextRegistry]_vars

----------------------------------------------------------------------------
(* SpecPipeline: middlewares, validators and routes composed over two run   *)
(* cycles, with the default middlewares switched either way, and requests   *)

InitPipeline == InitWith(BOOLEAN)

PipelineEndpointInputs ==
    {<<<<"/", "a">>, "get", "h1", <<"rm">>>>,
     <<<<"/", ":id">>, "get", "h1", <<>>>>,
     <<<<"/", ":id">>, "post", "h2", <<>>>>}

PipelineMiddlewareInputs == {<<"m1", "f1">>, <<"m2", "f2">>}

PipelineRequests ==
    {<<"get", <<"/", "a">>>>, <<"get", <<"/", "42">>>>, <<"post", <<"/", "42">>>>}

NextPipeline ==
    \/ \E a \in PipelineEndpointInputs :
          registrations < MaxPipelineRegistrations
             /\ addEndpoint(a[1], a[2], a[3], a[4])
    \/ \E a \in PipelineMiddlewareInputs :
          registrations < MaxPipelineRegistrations /\ addMiddleware(a[1], a[2])
    \/ registrations < MaxPipelineRegistrations /\ addParamChecker("id", "v1")
    \/ \E lc \in LegacyConfigs : Len(servers) < MaxPipelineServers /\ startServer(lc)
    \/ \E cancels \in Cancels : Len(stops) < MaxPipelineStops /\ stopServer(cancels)
    \/ \E r \in PipelineRequests : Request(r[1], r[2])
    \/ \E s \in 1..Len(servers) : ListenCallback(s)
    \/ \E s \in 1..Len(servers) : ListenError(s)
    \/ \E s \in 1..Len(servers) : CloseEvent(s)
    \/ \E k \in 1..Len(stops) : GraceTimer(k)
    \/ \E k \in 1..Len(stops), cancels \in Cancels : ForceTimer(k, cancels)

SpecPipeline == InitPipeline /\ [][NextPipeline]_vars

----------------------------------------------------------------------------
(* SpecShutdown: start, stop and forced stop over two run cycles with up to *)
(* three connections open, and nothing registered                          *)

NextShutdown ==
    \/ Len(servers) < MaxShutdownServers /\ startServer(Undefined)
    \/ \E cancels \in Cancels : Len(stops) < MaxShutdownStops /\ stopServer(cancels)
    \/ \E cancels \in Cancels : forceStopServer(cancels)
    \/ Events(MaxShutdownSockets)

SpecShutdown == Init /\ [][NextShutdown]_vars

\* node runs a timer that is due and emits an event that is due
timersAndEvents ==
    \/ \E k \in 1..Len(stops) : GraceTimer(k)
    \/ \E k \in 1..Len(stops), cancels \in Cancels : ForceTimer(k, cancels)
    \/ \E s \in 1..Len(servers) : CloseEvent(s)

FairShutdown == SpecShutdown /\ WF_vars(timersAndEvents)

----------------------------------------------------------------------------
(* SpecLegacy: every registration entry point, modern and legacy, with valid *)
(* and invalid arguments, and one start with each form of the legacy flag   *)

InitLegacy == InitWith(BOOLEAN)

LegacyEndpointInputs ==
    {<<<<"/", "a">>, "get", "h1">>,
     <<<<"/", "a">>, "post", "h2">>,
     <<<<"a">>, "get", "h1">>,
     <<<<"/", "a">>, "GET", "h1">>,
     <<<<"/", "a">>, "get", NotAFunction>>,
     <<<<>>, "GET", NotAFunction>>}

LegacyMultipleInputs ==
    {<<<<"/", "a">>, Array(<<"get">>), Array(<<"h1">>)>>,
     <<<<"/", "a">>, Array(<<"get", "post">>), Array(<<"h1", "h2">>)>>,
     <<<<"/", "a">>, Array(<<"get", "post">>), Array(<<"h1">>)>>,
     <<<<"/", "a">>, Array(<<"get", "post">>), Array(<<"h1", NotAFunction>>)>>,
     <<<<"/", "a">>, Array(<<"get">>), NotAnArray>>,
     <<<<"/", "a">>, Array(<<>>), NotAnArray>>,
     <<<<"/", "a">>, NotAnArray, NotAnArray>>,
     <<<<>>, Array(<<"get">>), Array(<<"h1">>)>>,
     <<<<>>, Array(<<"get">>), NotAnArray>>}

LegacyMiddlewareInputs == {"m1", ""} \X {"f1", NotAFunction}

LegacyParamInputs == {"id", ""} \X {"v1", NotAFunction}

NextLegacy ==
    \/ \E a \in LegacyEndpointInputs :
          Len(router) < MaxLegacyRoutes /\ addEndpoint(a[1], a[2], a[3], <<>>)
    \/ \E a \in LegacyEndpointInputs :
          Len(router) < MaxLegacyRoutes /\ AddEndPoint(a[1], a[2], a[3])
    \/ \E a \in LegacyMultipleInputs :
          Len(router) + Len(a[2].items) <= MaxLegacyRoutes
             /\ addMultipleMethods(a[1], a[2], a[3])
    \/ \E a \in LegacyMultipleInputs :
          Len(router) + Len(a[2].items) <= MaxLegacyRoutes
             /\ AddMultipleMethods(a[1], a[2], a[3])
    \/ \E a \in LegacyMiddlewareInputs : addMiddleware(a[1], a[2])
    \/ \E a \in LegacyMiddlewareInputs : AddMiddleWare(a[1], a[2])
    \/ \E a \in LegacyParamInputs : addParamChecker(a[1], a[2])
    \/ \E a \in LegacyParamInputs : AddParamChecker(a[1], a[2])
    \/ \E lc \in LegacyConfigs \cup LegacyStrings :
          Len(servers) < MaxLegacyServers /\ startServer(lc)
    \/ \E s \in 1..Len(servers) : ListenCallback(s)
    \/ \E s \in 1..Len(servers) : ListenError(s)

SpecLegacy == InitLegacy /\ [][NextLegacy]_vars

----------------------------------------------------------------------------
(* SpecRoutes: bulk registration of lists of route definitions, next to     *)
(* single registrations, before and after one start                        *)

RouteDefinitions ==
    {RouteDefinition(<<"/", "a">>, Single("get"), Single("h1"), <<"rm">>),
     RouteDefinition(<<"/", "a">>, Single("post"), Single("h2"), <<>>),
     RouteDefinition(<<"/", "b">>, Array(<<"get", "post">>), Array(<<"h1", "h2">>), <<>>),
     RouteDefinition(<<"/", "b">>, Array(<<"get">>), Array(<<"h2">>), <<>>),
     RouteDefinition(<<"/", "b">>, Array(<<"get", "post">>), Array(<<"h1">>), <<>>),
     RouteDefinition(<<"/", "b">>, Array(<<"get", "post">>), Array(<<"h1", NotAFunction>>), <<>>),
     RouteDefinition(<<"b">>, Single("get"), Single("h1"), <<>>),
     RouteDefinition(<<"/", "a">>, Single("GET"), Single("h1"), <<>>),
     RouteDefinition(<<"/", "a">>, Single("get"), Array(<<"h2", "h1">>), <<>>),
     RouteDefinition(<<"/", "b">>, Array(<<"get">>), Single("h1"), <<>>),
     RouteDefinition(<<"/", "b">>, Array(<<"get", "post">>), Array(<<"h1", "h2">>), <<"rm">>)}

RouteLists ==
    {<<d>> : d \in RouteDefinitions}
       \cup {<<d, e>> : d \in RouteDefinitions, e \in RouteDefinitions}

RECURSIVE methodCount(_)
methodCount(routes) ==
    IF routes = <<>> THEN 0
    ELSE Len(Head(routes).method.items) + methodCount(Tail(routes))

NextRoutes ==
    \/ \E routes \in RouteLists :
          Len(router) + methodCount(routes) <= MaxBulkRoutes /\ addRoutes(routes)
    \/ Len(router) < MaxBulkRoutes /\ addEndpoint(<<"/", "a">>, "get", "h2", <<>>)
    \/ Len(router) + 1 < MaxBulkRoutes
          /\ addMultipleMethods(<<"/", "b">>, Array(<<"post", "get">>), Array(<<"h1", "h2">>))
    \/ Len(servers) < MaxBulkServers /\ startServer(Undefined)
    \/ \E s \in 1..Len(servers) : ListenCallback(s)
    \/ \E s \in 1..Len(servers) : ListenError(s)

SpecRoutes == Init /\ [][NextRoutes]_vars

----------------------------------------------------------------------------
(* SpecRequests: requests of every method to routes whose handlers answer,  *)
(* throw or reject, behind middlewares that pass, throw or end the response *)

ServeEndpointInputs ==
    {<<<<"/", "a">>, "get", "h1">>,
     <<<<"/", "a">>, "post", "throwsDomain">>,
     <<<<"/", "b">>, "get", "throwsOther">>,
     <<<<"/", "b">>, "post", "rejects">>}

ServeMiddlewareInputs == {<<"m1", "f1">>, <<"m2", "mThrows">>, <<"m3", "denies">>}

ServeRequests ==
    {"get", "post", "head", "options"} \X {<<"/", "a">>, <<"/", "b">>, <<"/", "c">>}

NextRequests ==
    \/ \E a \in ServeEndpointInputs :
          registrations < MaxServeRegistrations /\ addEndpoint(a[1], a[2], a[3], <<>>)
    \/ \E a \in ServeMiddlewareInputs :
          registrations < MaxServeRegistrations /\ addMiddleware(a[1], a[2])
    \/ Len(servers) < MaxServeServers /\ startServer(Undefined)
    \/ \E s \in 1..Len(servers) : ListenCallback(s)
    \/ \E s \in 1..Len(servers) : ListenError(s)
    \/ \E r \in ServeRequests : Request(r[1], r[2])

SpecRequests == InitPipeline /\ [][NextRequests]_vars

----------------------------------------------------------------------------
(* SpecObservers: the lifecycle with one route registered, the observers    *)
(* and restartServer called in every state                                 *)

NextObservers ==
    \/ Len(router) < 1 /\ addEndpoint(<<"/", "a">>, "get", "h1", <<>>)
    \/ Len(servers) < MaxObserverServers /\ startServer(Undefined)
    \/ \E cancels \in Cancels : Len(stops) < MaxObserverStops /\ stopServer(cancels)
    \/ \E cancels \in Cancels : forceStopServer(cancels)
    \/ restartServer
    \/ getServerInfo
    \/ getEndpointsCall
    \/ getActiveConnections
    \/ Events(MaxObserverSockets)

SpecObservers == Init /\ [][NextObservers]_vars

----------------------------------------------------------------------------
(* The lifecycle states of the specification, read off the controller      *)

\* Starting: a startServer call is past its guard and its bind is undecided
Starting == \E s \in 1..Len(servers) : servers[s].st = "binding"

\* Stopping: a stopServer call was accepted and has not settled
Stopping == \E k \in 1..Len(stops) : stops[k].promise = "pending"

\* Running: the controller reports isRunning and no stop is under way
Running == isServerStarted /\ ~Stopping

IdleOrStopped == ~isServerStarted /\ ~Starting /\ ~Stopping

----------------------------------------------------------------------------
(* Inputs the claims range over *)

AddEndpointInputs ==
    PathInputs \X MethodInputs \X CallbackInputs \X RouteMiddlewareInputs

addEndpointStep == \E a \in AddEndpointInputs : addEndpoint(a[1], a[2], a[3], a[4])

addMiddlewareStep ==
    \E id \in MiddlewareIdInputs, cb \in MiddlewareFns \cup {NotAFunction} :
        addMiddleware(id, cb)

addParamCheckerStep ==
    \E p \in ParamNameInputs, cb \in ParamFns \cup {NotAFunction} : addParamChecker(p, cb)

startServerStep == \E lc \in LegacyConfigs : startServer(lc)

----------------------------------------------------------------------------
(* Claims *)

\* C1: a startServer call made while the controller reports isRunning (the earlier
\* start completed, no stop finished since) fails with ServerError and leaves the
\* running instance as it was: same listener, same pipeline, same tracked
\* connections, isServerStarted still true.
C1_SecondStartRejected ==
    [][(isServerStarted /\ startServerStep)
        => /\ last'.op = "startServer" /\ last'.err = SERVER_ERROR
           /\ isServerStarted'
           /\ UNCHANGED <<server, servers, app, router, routerParams, middlewares,
                          config, connections, sockets>>]_vars

\* C1 witness: a rejected second start on a listening, connection-tracking server
C1_Witness ==
    /\ last.op = "startServer" /\ last.err = SERVER_ERROR
    /\ isServerStarted /\ server \in Listening
    /\ connections # {}

\* C2: a startServer call made while an earlier one is still binding is rejected
\* with ServerError, and neither composes the pipeline nor binds a listener again.
C2_StartWhileStartingRejected ==
    [][(~isServerStarted /\ server # 0 /\ Starting /\ startServerStep)
        => /\ last'.err = SERVER_ERROR
           /\ UNCHANGED <<server, servers, app, routerParams>>]_vars

\* C3: addEndpoint, addMiddleware and addParamChecker are each rejected in
\* Starting, Running and Stopping, and leave the registries unchanged.
C3_MutatorsRejectedOutsideIdle ==
    [][(~IdleOrStopped /\ (addEndpointStep \/ addMiddlewareStep \/ addParamCheckerStep))
        => /\ last'.err # NoError
           /\ UNCHANGED registries]_vars

validArguments(a) ==
    /\ validateEndpoint(a[1]) = NoError
    /\ validateHTTPMethod(a[2]) = NoError
    /\ isFunction(a[3])

isRegistered(method, endpoint) == MapHas(endpoints, fullPath(method, endpoint))

Count(seq, x) == Cardinality({i \in 1..Len(seq) : seq[i] = x})

\* the route layers registered for (method, endpoint)
layersOf(method, endpoint) ==
    {j \in 1..Len(router) :
        fullPath(router[j].method, router[j].path) = fullPath(method, endpoint)}

\* C4: addEndpoint with valid arguments while the server is started fails with
\* ControllerError and changes neither the keys getEndpoints returns nor the
\* route layers the router dispatches to.
C4_AddEndpointFrozenAfterStart ==
    [][\A a \in AddEndpointInputs :
          (isServerStarted /\ validArguments(a) /\ addEndpoint(a[1], a[2], a[3], a[4]))
          => /\ last'.err = CONTROLLER_ERROR
             /\ getEndpoints' = getEndpoints
             /\ UNCHANGED <<endpoints, router>>]_vars

\* C4 witness: a valid addEndpoint was refused on a started server that has routes
C4_Witness ==
    /\ last.op = "addEndpoint" /\ last.err = CONTROLLER_ERROR
    /\ validArguments(last.args)
    /\ isServerStarted /\ Len(router) > 0

\* C5 as stated: re-registering a registered (method, path) after the start fails
\* with ServerError and leaves the registry unchanged.
C5_ReRegisterAfterStartServerError ==
    [][\A a \in AddEndpointInputs :
          (/\ isServerStarted /\ validArguments(a) /\ isRegistered(a[2], a[1])
           /\ addEndpoint(a[1], a[2], a[3], a[4]))
          => /\ last'.err = SERVER_ERROR
             /\ UNCHANGED <<endpoints, router>>]_vars

\* C5 as amended: re-registering a registered (method, path) after the start fails
\* with ControllerError and leaves the registry unchanged.
C5_ReRegisterAfterStartControllerError ==
    [][\A a \in AddEndpointInputs :
          (/\ isServerStarted /\ validArguments(a) /\ isRegistered(a[2], a[1])
           /\ addEndpoint(a[1], a[2], a[3], a[4]))
          => /\ last'.err = CONTROLLER_ERROR
             /\ last'.err # SERVER_ERROR
             /\ UNCHANGED <<endpoints, router>>]_vars

\* C5 witness: the refused call names a key the registry holds, with another handler
C5_Witness ==
    /\ last.op = "addEndpoint" /\ last.err = CONTROLLER_ERROR
    /\ isServerStarted
    /\ isRegistered(last.args[2], last.args[1])
    /\ MapGet(endpoints, fullPath(last.args[2], last.args[1])) # last.args[3]

\* C6: when a (method, path) was registered more than once before the start, a
\* request to it is served by the handler registered last, the one the registry
\* holds under that key.
C6_FinalHandlerWins ==
    (/\ last.op = "request" /\ last.res.status = 200
     /\ Cardinality(layersOf(last.args[1], last.args[2])) > 1)
    => /\ Count(getEndpoints, fullPath(last.args[1], last.args[2])) = 1
       /\ last.res.log[Len(last.res.log)]
             = MapGet(endpoints, fullPath(last.args[1], last.args[2]))

\* C7: after addEndpoint succeeds, getEndpoints() holds the key "METHOD path"
\* exactly once, whatever was registered before.
C7_KeyExactlyOnce ==
    (last.op = "addEndpoint" /\ last.err = NoError)
    => Count(getEndpoints, fullPath(last.args[2], last.args[1])) = 1

\* C7 witness: the successful call re-registered a key, and other keys exist
C7_Witness ==
    /\ last.op = "addEndpoint" /\ last.err = NoError
    /\ Len(getEndpoints) > 1
    /\ Cardinality(layersOf(last.args[2], last.args[1])) > 1

MultipleInputs == PathInputs \X MethodArrayInputs \X CallbackArrayInputs

differentLengths(a) ==
    a[2].isArray /\ a[3].isArray /\ Len(a[2].items) # Len(a[3].items)

\* C8 as stated: addMultipleMethods with arrays of different lengths, an empty
\* methods array with handlers included, fails with a Callback error and registers
\* nothing.
C8_MismatchAlwaysCallbackError ==
    [][\A a \in MultipleInputs :
          (/\ validateEndpoint(a[1]) = NoError /\ differentLengths(a)
           /\ addMultipleMethods(a[1], a[2], a[3]))
          => /\ last'.err = CALLBACK_ERROR
             /\ UNCHANGED <<endpoints, router>>]_vars

\* C8 as amended: addMultipleMethods with arrays of different lengths always fails
\* and registers nothing; the error is EndpointError for an invalid path, else
\* MethodError for an empty methods array, else the Callback error.
C8_MismatchFailsRegistersNothing ==
    [][\A a \in MultipleInputs :
          (differentLengths(a) /\ addMultipleMethods(a[1], a[2], a[3]))
          => /\ last'.err = (IF validateEndpoint(a[1]) # NoError THEN ENDPOINT_ERROR
                             ELSE IF Len(a[2].items) = 0 THEN METHOD_ERROR
                             ELSE CALLBACK_ERROR)
             /\ getEndpoints' = getEndpoints
             /\ UNCHANGED <<endpoints, router>>]_vars

\* C8 witness: a call with fewer handlers than methods failed with the Callback
\* error on a registry that holds routes
C8_Witness ==
    /\ last.op = "addMultipleMethods" /\ last.err = CALLBACK_ERROR
    /\ differentLengths(last.args)
    /\ Len(last.args[2].items) > Len(last.args[3].items)
    /\ Len(router) > 0

\* the handler chain the router dispatches a (method, path) to
boundTo(method, path) == routerHandle(router, <<>>, method, path)

pairwiseDistinct(seq) == \A i, j \in 1..Len(seq) : seq[i] = seq[j] => i = j

\* C9: after a successful addMultipleMethods (of distinct methods), every
\* (methods[i], path) is bound to handlers[i] and to no other handler.
C9_MethodBoundToItsHandler ==
    (/\ last.op = "addMultipleMethods" /\ last.err = NoError
     /\ pairwiseDistinct(last.args[2].items))
    => \A i \in 1..Len(last.args[2].items) :
          /\ boundTo(last.args[2].items[i], last.args[1]).matched
          /\ boundTo(last.args[2].items[i], last.args[1]).log = <<last.args[3].items[i]>>

DefaultFns == {"morgan", "helmet", "cors"}
UserFns == {"f1", "f2"}
RouteFns == {"rm"}

\* i before j in the log wherever both kinds occur
inOrder(log, firsts, seconds) ==
    \A i, j \in 1..Len(log) : (log[i] \in seconds /\ log[j] \in firsts) => j < i

\* C10: with the default middlewares enabled, a request to a matched endpoint runs
\* morgan, helmet and cors first, then the user middlewares, then the middlewares of
\* the route, then the handler.
C10_DefaultsBeforeUserMiddlewares ==
    (/\ last.op = "request" /\ last.res.status = 200
     /\ config.useDefaultMiddlewares)
    => /\ DefaultFns \subseteq {last.res.log[i] : i \in 1..Len(last.res.log)}
       /\ inOrder(last.res.log, DefaultFns, UserFns)
       /\ inOrder(last.res.log, UserFns, RouteFns)
       /\ inOrder(last.res.log, RouteFns, Handlers)

\* a step in which startServer got past its guard and called app.listen
startServerAccepted ==
    /\ Len(servers') = Len(servers) + 1
    /\ last'.op = "startServer" /\ last'.err = "pending"

\* the user middlewares of the registry: the entries that addMiddleware made
userMiddlewares == SelectSeq(middlewares, LAMBDA e : e.key \notin DefaultMiddlewareIds)

\* the places of fn in the functions a request ran
placesOf(log, fn) == {i \in 1..Len(log) : log[i] = fn}

\* C11: a startServer accepted in Idle or Stopped builds the pipeline from the
\* registries as they stand: every user middleware registered by then runs exactly
\* once, and before the route handler, on each request to a matched endpoint.
C11_PipelineBuiltFromRegistriesAtStart ==
    [][(IdleOrStopped /\ startServerAccepted)
          => \A r \in PipelineRequests :
                LET served == Dispatch(r[1], r[2])' IN
                served.status = 200
                => \A i \in 1..Len(userMiddlewares) :
                      /\ Cardinality(placesOf(served.log, userMiddlewares[i].val)) = 1
                      /\ \A at \in placesOf(served.log, userMiddlewares[i].val) :
                            at < Len(served.log)]_vars

\* C12: after a startServer accepted in Idle or Stopped, a request that matches a
\* route with the path parameter id runs the validator registered for id exactly
\* once, and before the route handler.
C12_ValidatorOncePerRequest ==
    [][(IdleOrStopped /\ MapHas(parameters, "id") /\ startServerAccepted)
          => \A r \in PipelineRequests :
                LET served == Dispatch(r[1], r[2])' IN
                (served.status = 200 /\ r[2] # <<"/", "a">>)
                => /\ Cardinality(placesOf(served.log, MapGet(parameters, "id"))) = 1
                   /\ \A at \in placesOf(served.log, MapGet(parameters, "id")) :
                         at < Len(served.log)]_vars

stopServerStep == \E cancels \in BOOLEAN : stopServer(cancels)

\* the lifecycle state the instance holds: what getServerInfo reports, the listener
\* it references, its servers, its connection set and its stop calls
lifecycle == <<isServerStarted, server, servers, connections, sockets, stops>>

\* C13: stopServer called when the controller was never started, is Starting (the
\* listen callback has not run) or is Stopped fails with ServerError and leaves the
\* lifecycle state, the listener and the connection set unchanged.
C13_StopRejectedWhenNotRunning ==
    [][((IdleOrStopped \/ (Starting /\ ~isServerStarted)) /\ stopServerStep)
          => /\ last'.op = "stopServer" /\ last'.err = SERVER_ERROR
             /\ UNCHANGED lifecycle]_vars

\* C13 witness: a stopServer refused while the bind of a started listener is pending
C13_Witness ==
    /\ last.op = "stopServer" /\ last.err = SERVER_ERROR
    /\ Starting /\ ~isServerStarted /\ server # 0
    /\ stops = <<>>

\* a step in which stopServer got past its guard
stopServerAccepted ==
    /\ Len(stops') = Len(stops) + 1
    /\ last'.op = "stopServer" /\ last'.err = "pending"

\* a step in which a timer of stop call j ran
timerFired(j) == stops'[j].grace # stops[j].grace \/ stops'[j].force # stops[j].force

\* stop call k is the one shutdown under way, and no call was made since it was accepted
draining(k) ==
    /\ k = Len(stops)
    /\ last.op = "stopServer" /\ last.err = "pending"
    /\ \A j \in 1..Len(stops) : stops[j].promise = "pending" <=> j = k

\* a step in which the promise of stop call k resolves
stopResolves(k) == stops[k].promise = "pending" /\ stops'[k].promise = "resolved"

\* C14: a stopServer accepted in Running closes the listener within the call; until
\* its grace timer has fired no timer destroys a tracked connection; when the grace
\* timer fires every connection still tracked is destroyed; and when its promise
\* resolves the controller is stopped and the connection set is empty.
C14_GracefulStopOrder ==
    [][/\ (Running /\ server \in Listening /\ stopServerAccepted)
            => /\ servers'[server].st = "closed"
               /\ sockets' = sockets /\ connections' = connections
       /\ \A k \in 1..Len(stops) :
             /\ (draining(k) /\ stops[k].grace = "pending")
                   => \A j \in 1..(k - 1) : timerFired(j) => connections' = connections
             /\ (draining(k) /\ stops[k].grace = "pending" /\ timerFired(k))
                   => /\ connections' = {}
                      /\ socketIds(sockets') \cap connections = {}
             /\ stopResolves(k)
                   => ~isServerStarted' /\ server' = 0 /\ connections' = {}]_vars

\* stop call k closed the listener this.server still names, which was listening
closesThisServer(k) ==
    /\ server # 0
    /\ \E i \in 1..Len(servers[server].closeCbs) :
          servers[server].closeCbs[i] = StopCallback(k)

\* every open connection of the listener this.server names is in the connection set
allTracked == server # 0 /\ socketIds(openSocketsOf(sockets, server)) \subseteq connections

\* a step in which the grace timer of stop call k fires
graceExpires(k) == stops[k].grace = "pending" /\ stops'[k].grace = "fired"

\* C15: when the grace timer of a pending stopServer fires, with the connections of
\* its listener (three of them, or any number) all tracked and idle, no connection
\* of the listener stays open and its 'close' event, which completes the call, is
\* due; and when the call has completed getActiveConnections() is 0 and isRunning
\* is false.
C15_StopCompletesAtGraceExpiry ==
    [][\A k \in 1..Len(stops) :
          /\ (/\ stops[k].promise = "pending" /\ closesThisServer(k) /\ allTracked
              /\ graceExpires(k))
                => /\ openSocketsOf(sockets', server) = {}
                   /\ servers'[server].emit
                   /\ Cardinality(connections') = 0
          /\ stopResolves(k)
                => Cardinality(connections') = 0 /\ ~isServerStarted']_vars

\* C15 witness: a stopServer was accepted on a Running listener with three tracked
\* connections open, and its grace timer has not fired yet
C15_Witness ==
    /\ last.op = "stopServer" /\ last.err = "pending"
    /\ Len(stops) = 1 /\ stops[1].grace = "pending" /\ stops[1].promise = "pending"
    /\ closesThisServer(1) /\ allTracked
    /\ isServerStarted /\ Cardinality(connections) = 3
    /\ Cardinality(openSocketsOf(sockets, server)) = 3

\* C16: every stopServer accepted in Running (the controller reports isRunning and
\* no other stop is pending) eventually settles with the controller stopped: its
\* promise resolved, isRunning false, no handle and no connection tracked; also when
\* no connection ever closes on its own.
C16_StopEventuallySettles ==
    \A k \in 1..MaxShutdownStops :
        (Len(stops) >= k /\ draining(k))
        ~> (/\ Len(stops) >= k /\ stops[k].promise = "resolved"
            /\ ~isServerStarted /\ server = 0 /\ connections = {})

forceStopServerStep == \E cancels \in BOOLEAN : forceStopServer(cancels)

\* C17: forceStopServer called while the controller reports isRunning (Running, or
\* Stopping before the listener has closed) returns normally having destroyed every
\* tracked connection and closed the listener, with no timer involved, and leaves
\* isRunning false and getActiveConnections() 0.
C17_ForceStopFromRunningOrStopping ==
    [][(isServerStarted /\ forceStopServerStep)
          => /\ last'.op = "forceStopServer" /\ last'.err = NoError
             /\ socketIds(sockets') \cap connections = {}
             /\ Listening' = {}
             /\ UNCHANGED stops
             /\ ~isServerStarted' /\ Cardinality(connections') = 0]_vars

\* C18: forceStopServer called when the controller was never started, is Starting
\* (the listen callback has not run), is Stopped, or is Idle after a failed bind
\* fails with ServerError and changes nothing.
C18_ForceStopRejectedWhenNotRunning ==
    [][((IdleOrStopped \/ (Starting /\ ~isServerStarted)) /\ forceStopServerStep)
          => /\ last'.op = "forceStopServer" /\ last'.err = SERVER_ERROR
             /\ UNCHANGED lifecycle]_vars

\* a step in which the bind of servers[s] fails
bindFails(s) == servers[s].st = "binding" /\ servers'[s].st = "failed"

\* Idle after a failed bind: not started, no bind pending, the last listener failed
IdleAfterFailedBind ==
    /\ ~isServerStarted /\ ~Starting
    /\ Len(servers) > 0 /\ servers[Len(servers)].st = "failed"

\* the start that made servers[s] was called in Idle or Stopped and is the only one
\* under way: not running, no listener open, no other bind pending
startedFromIdle(s) ==
    /\ ~isServerStarted /\ Listening = {}
    /\ \A t \in 1..Len(servers) : servers[t].st = "binding" => t = s

\* C19: when the bind of a startServer made in Idle fails, its promise is rejected
\* with a ServerError that carries the transport error as context, isRunning stays
\* false and no connection is tracked; and a startServer made after that is accepted.
C19_BindFailureLeavesIdle ==
    [][/\ \A s \in 1..Len(servers) :
             (startedFromIdle(s) /\ bindFails(s))
             => /\ servers'[s].promise = "rejected"
                /\ servers'[s].rejection.errorCode = SERVER_ERROR
                /\ servers'[s].rejection.context = "originalError"
                /\ ~isServerStarted' /\ Cardinality(connections') = 0
                /\ UNCHANGED <<endpoints, router, middlewares, parameters>>
       /\ (IdleAfterFailedBind /\ startServerStep) => startServerAccepted]_vars

\* C19 witness: after a failed bind the controller is not running, tracks nothing,
\* and a new startServer has been accepted
C19_Witness ==
    /\ Len(servers) = 2
    /\ servers[1].st = "failed" /\ servers[1].promise = "rejected"
    /\ servers[1].rejection = ControllerErrors(SERVER_ERROR, "originalError")
    /\ servers[2].st = "binding" /\ server = 2
    /\ ~isServerStarted /\ connections = {}
    /\ last.op = "startServer" /\ last.err = "pending"

\* freshly constructed: no startServer call was ever accepted
Idle == servers = <<>> /\ stops = <<>> /\ ~isServerStarted

\* Stopped: the listener of the last accepted startServer was closed and cleanup ran,
\* by a stopServer or a forceStopServer that completed; no start is pending
Stopped ==
    /\ ~isServerStarted /\ ~Starting
    /\ Len(servers) > 0 /\ servers[Len(servers)].st = "closed"

validRegistrationStep ==
    \/ addEndpoint(<<"/", "a">>, "get", "h1", <<>>)
    \/ addMultipleMethods(<<"/", "a">>, Array(<<"get">>), Array(<<"h1">>))
    \/ addMiddleware("m1", "f1")
    \/ addParamChecker("id", "v1")

\* a step in which the listen callback of servers[s] runs
listens(s) == servers[s].st = "binding" /\ servers'[s].st = "listening"

\* C20: in Stopped, as in a freshly constructed controller, startServer and the
\* registration mutators are accepted, stopServer and forceStopServer fail with
\* ServerError and change nothing; and when the listener of a startServer made from
\* Stopped is bound, the start resolves and the controller reports isRunning again.
C20_StoppedBehavesAsIdle ==
    [][/\ (Idle \/ Stopped)
          => /\ startServerStep => startServerAccepted
             /\ validRegistrationStep => last'.err = NoError
             /\ stopServerStep
                   => /\ last'.op = "stopServer" /\ last'.err = SERVER_ERROR
                      /\ UNCHANGED lifecycle
             /\ forceStopServerStep
                   => /\ last'.op = "forceStopServer" /\ last'.err = SERVER_ERROR
                      /\ UNCHANGED lifecycle
       /\ \A s \in 2..Len(servers) :
             (servers[s - 1].st = "closed" /\ ~isServerStarted /\ listens(s))
             => isServerStarted' /\ servers'[s].promise = "resolved"]_vars

\* C20 witness: a startServer made after a completed stopServer has bound its
\* listener and the controller is Running again
C20_Witness ==
    /\ Len(servers) = 2 /\ servers[1].st = "closed"
    /\ Len(stops) = 1 /\ stops[1].promise = "resolved"
    /\ servers[2].st = "listening" /\ servers[2].promise = "resolved"
    /\ Running /\ server = 2

\* C21: restartServer called in Running does what stopServer does at its first
\* sub-step (the listener is closed and the stop is under way, to be followed by a
\* start), and called while not running it fails with the ServerError of stopServer.
C21_RestartIsStopThenStart ==
    [][/\ (Running /\ server \in Listening /\ restartServer)
             => /\ last'.err = "pending"
                /\ stops' = Append(stops, Stop)
                /\ servers'[server].st = "closed"
       /\ (~isServerStarted /\ restartServer) => last'.err = SERVER_ERROR]_vars

observerStep == getServerInfo \/ getEndpointsCall \/ getActiveConnections

\* C30: getServerInfo(), getActiveConnections() and getEndpoints() succeed in
\* every lifecycle state, return what the instance holds at that moment, and leave
\* the lifecycle state, the three registries, the router, the application stack,
\* the listener and the connection set unchanged.
C30_ObserversChangeNothing ==
    [][/\ ENABLED getServerInfo /\ ENABLED getEndpointsCall /\ ENABLED getActiveConnections
       /\ observerStep
             => /\ last'.err = NoError
                /\ UNCHANGED <<lifecycle, registries, routerParams, app, config>>
       /\ getServerInfo => last'.res.value = [isRunning |-> isServerStarted']
       /\ getEndpointsCall => last'.res.value = MapKeys(endpoints')
       /\ getActiveConnections => last'.res.value = Cardinality(connections')]_vars

\* an observer answered while a stop was draining a tracked connection
C30_Witness ==
    /\ last.op = "getActiveConnections" /\ last.err = NoError
    /\ last.res.value = 1
    /\ Stopping /\ Cardinality(connections) = 1

emptyOrNoSlash(path) == Len(path) = 0 \/ path[1] # "/"

knownMethod(method) ==
    method \in {"get", "post", "put", "delete", "patch", "options", "head"}

\* C23: addEndpoint fails with EndpointError when the path is empty or does not
\* start with "/", with MethodError when the path is well formed and the method is
\* not one of get, post, put, delete, patch, options, head, and with CallbackError
\* when path and method are good and the handler is not callable; every failed
\* addEndpoint call leaves the endpoint registry and the router unchanged.
C23_AddEndpointValidation ==
    [][\A a \in RegistryEndpointInputs :
          addEndpoint(a[1], a[2], a[3], a[4])
             => /\ emptyOrNoSlash(a[1]) => last'.err = ENDPOINT_ERROR
                /\ (~emptyOrNoSlash(a[1]) /\ ~knownMethod(a[2]))
                      => last'.err = METHOD_ERROR
                /\ (~emptyOrNoSlash(a[1]) /\ knownMethod(a[2]) /\ a[3] = NotAFunction)
                      => last'.err = CALLBACK_ERROR
                /\ last'.err # NoError => UNCHANGED <<endpoints, router>>]_vars

\* a call with a path lacking the leading "/" was refused with routes registered
C23_Witness ==
    /\ last.op = "addEndpoint" /\ last.err = ENDPOINT_ERROR
    /\ last.args[1] = <<"a">>
    /\ Len(router) > 0 /\ Len(endpoints) > 0

\* the functions a request ran
ran(served) == {served.log[i] : i \in 1..Len(served.log)}

\* C24: at every start accepted in Idle or Stopped, when useDefaultMiddlewares is false for that start
\* (by configuration or by the legacy flag) no reserved default middleware runs on
\* a request served in that cycle, also after an earlier cycle with the defaults
\* enabled; when it is true morgan, helmet and cors all run.
C24_DefaultsToggleHonouredAtEveryStart ==
    [][(IdleOrStopped /\ startServerAccepted)
          => \A r \in PipelineRequests :
                LET served == Dispatch(r[1], r[2])' IN
                served.status = 200
                => /\ config'.useDefaultMiddlewares => DefaultFns \subseteq ran(served)
                   /\ ~config'.useDefaultMiddlewares => DefaultFns \cap ran(served) = {}]_vars

sameAs(r) == last'.err = r.err /\ endpoints' = r.endpoints /\ router' = r.router

\* the stack a controller configured with the toggle hands to express at this start
pipelineConfigured(useDefaultMiddlewares) ==
    setupRoutingAndErrorHandling(
        registerAllMiddlewares(app, applyDefaultMiddlewares(middlewares, useDefaultMiddlewares)))

\* C29: from any state and for any arguments AddEndPoint, AddMultipleMethods,
\* AddMiddleWare and AddParamChecker end with the same error and the same
\* registries as addEndpoint, addMultipleMethods, addMiddleware and addParamChecker,
\* and an accepted startServer('true') or startServer('false') builds the pipeline
\* of a controller configured with useDefaultMiddlewares true or false.
C29_LegacyEntryPointsEquivalent ==
    [][/\ \A a \in LegacyEndpointInputs :
             AddEndPoint(a[1], a[2], a[3])
                => /\ sameAs(addEndpointTo(thisRegistry, a[1], a[2], a[3], <<>>))
                   /\ UNCHANGED <<middlewares, parameters>>
       /\ \A a \in LegacyMultipleInputs :
             AddMultipleMethods(a[1], a[2], a[3])
                => /\ sameAs(addMultipleMethodsTo(thisRegistry, a[1], a[2], a[3]))
                   /\ UNCHANGED <<middlewares, parameters>>
       /\ \A a \in LegacyMiddlewareInputs :
             AddMiddleWare(a[1], a[2])
                => /\ last'.err = addMiddlewareError(a[1], a[2])
                   /\ middlewares' = IF last'.err = NoError
                                     THEN MapSet(middlewares, a[1], a[2])
                                     ELSE middlewares
                   /\ UNCHANGED <<endpoints, router, parameters>>
       /\ \A a \in LegacyParamInputs :
             AddParamChecker(a[1], a[2])
                => /\ last'.err = addParamCheckerError(a[1], a[2])
                   /\ parameters' = IF last'.err = NoError
                                    THEN MapSet(parameters, a[1], a[2])
                                    ELSE parameters
                   /\ UNCHANGED <<endpoints, router, middlewares>>
       /\ \A lc \in LegacyStrings :
             (startServer(lc) /\ startServerAccepted)
                => app' = pipelineConfigured(lc.flag = "true")]_vars

\* a definition with a single method and handler, or with two arrays
wellShaped(d) == d.method.isArray = d.handler.isArray

\* the (path, method, handlers) a list of well-shaped definitions names, in order
RECURSIVE expectedLayers(_)
expectedLayers(routes) ==
    IF routes = <<>> THEN <<>>
    ELSE LET d == Head(routes) IN
         (IF d.method.isArray
          THEN [i \in 1..Len(d.method.items) |->
                  [path |-> d.path, method |-> d.method.items[i],
                   handlers |-> <<d.handler.items[i]>>]]
          ELSE <<[path |-> d.path, method |-> d.method.items[1],
                  handlers |-> d.middlewares \o <<d.handler.items[1]>>]>>)
            \o expectedLayers(Tail(routes))

\* the call a caller makes for one definition: addEndpoint or addMultipleMethods
perDefinition(reg, d) ==
    IF d.method.isArray
    THEN addMultipleMethodsTo(reg, d.path, d.method, d.handler)
    ELSE addEndpointTo(reg, d.path, d.method.items[1], d.handler.items[1], d.middlewares)

\* those calls one after the other, up to the first that throws
RECURSIVE oneByOne(_, _)
oneByOne(reg, routes) ==
    IF routes = <<>> THEN reg
    ELSE LET r == perDefinition(reg, Head(routes)) IN
         IF r.err # NoError THEN r ELSE oneByOne(r, Tail(routes))

\* C28: addRoutes processes the definitions in order; a list of definitions that
\* each have a single method and handler or two parallel arrays, when accepted,
\* appends to the router exactly the pairs it names, in order (method with handler,
\* methods[i] with handlers[i]) and files each under its key with the handler of
\* the last definition naming that key; accepted or not, the registry and the error
\* are those of calling addEndpoint or addMultipleMethods per definition.
C28_AddRoutesInOrder ==
    [][\A routes \in {rs \in RouteLists : last'.op = "addRoutes" /\ last'.args = <<rs>>} :
          ((\A i \in 1..Len(routes) : wellShaped(routes[i])) /\ addRoutes(routes))
             => LET want == expectedLayers(routes) IN
                /\ sameAs(oneByOne(thisRegistry, routes))
                /\ last'.err = NoError
                      => /\ router' = router \o want
                         /\ \A i \in 1..Len(want) :
                               LET key == fullPath(want[i].method, want[i].path)
                                   same == {j \in 1..Len(want) :
                                              fullPath(want[j].method, want[j].path) = key}
                                   final == CHOOSE j \in same : \A k \in same : k <= j
                               IN /\ MapHas(endpoints', key)
                                  /\ MapGet(endpoints', key)
                                        = want[final].handlers[Len(want[final].handlers)]]_vars

\* a list of a single definition with route middlewares and a definition with
\* parallel arrays was accepted
C28_Witness ==
    /\ last.op = "addRoutes" /\ last.err = NoError
    /\ Len(last.args[1]) = 2
    /\ ~last.args[1][1].method.isArray /\ last.args[1][1].middlewares # <<>>
    /\ last.args[1][2].method.isArray /\ Len(last.args[1][2].method.items) = 2
    /\ Len(router) = 3

\* C25: an error thrown by a handler or a middleware and handed to the terminal
\* error stage is answered, when it is a ControllerErrors, with a 4xx/5xx JSON body
\* of error true, its message, its code and its context, and otherwise with 500
\* and the generic body, which carries nothing of the error.
C25_ErrorStageMapping ==
    (last.op = "request" /\ last.res.raised # NoErr)
    => LET err == last.res.raised
           body == last.res.body IN
       IF err.instance = "ControllerErrors"
       THEN /\ last.res.status \in 400..599
            /\ body = [error |-> TRUE, message |-> err.message, code |-> err.errorCode,
                       context |-> err.context]
       ELSE /\ last.res.status = 500
            /\ body = [error |-> TRUE, message |-> "Internal server error"]
            /\ body.message # err.message

\* a handler threw an error that is no ControllerErrors and the request was
\* answered 500
C25_Witness ==
    /\ last.op = "request" /\ last.args = <<"get", <<"/", "b">>>>
    /\ last.res.raised.instance = "Error"
    /\ last.res.status = 500
    /\ last.res.log[Len(last.res.log)] = "errorHandler"

\* C26: every error a handler or middleware raises while serving a request, thrown
\* or produced by a rejected promise, is answered by the terminal error stage with
\* a structured JSON response; none escapes the pipeline.
C26_NoErrorEscapes ==
    (last.op = "request" /\ (last.res.raised # NoErr \/ last.res.escaped # NoErr))
    => /\ last.res.escaped = NoErr
       /\ last.res.status \in 400..599
       /\ last.res.body.error

\* a middleware of the registry ended the response or raised an error
shortCircuited ==
    \E i \in 1..Len(last.res.log) :
        /\ last.res.log[i] \notin {"notFound", "errorHandler"}
        /\ behaviour(last.res.log[i], last.args[1]) # "next"

\* a registered endpoint with the method and a path pattern matching the path
matchesEndpoint(method, path) ==
    \E j \in 1..Len(router) : router[j].method = method /\ matchPath(router[j].path, path)

\* C27 as stated: while Running, a request whose (method, path) matches no
\* registered endpoint and that no middleware short-circuits is answered 404 with
\* availableEndpoints equal to what getEndpoints() returns.
C27_UnmatchedIs404 ==
    (/\ last.op = "request" /\ Running
     /\ ~matchesEndpoint(last.args[1], last.args[2])
     /\ ~shortCircuited)
    => /\ last.res.status = 404
       /\ last.res.body.availableEndpoints = getEndpoints

\* C27 amended: while Running, a request other than HEAD whose (method, path)
\* matches no registered endpoint (for an OPTIONS request: whose path matches no
\* registered endpoint of any method) and that no middleware short-circuits is
\* answered 404 with availableEndpoints equal to what getEndpoints() returns.
C27_UnmatchedIs404ExceptHeadOptions ==
    (/\ last.op = "request" /\ Running
     /\ last.args[1] # "head"
     /\ ~matchesEndpoint(last.args[1], last.args[2])
     /\ last.args[1] = "options" => \A m \in validMethods : ~matchesEndpoint(m, last.args[2])
     /\ ~shortCircuited)
    => /\ last.res.status = 404
       /\ last.res.body.availableEndpoints = getEndpoints

\* a POST to a path registered for GET only was answered 404 with the list
C27_Witness ==
    /\ last.op = "request" /\ Running
    /\ last.args = <<"post", <<"/", "a">>>>
    /\ matchesEndpoint("get", <<"/", "a">>)
    /\ last.res.status = 404
    /\ last.res.body.availableEndpoints = getEndpoints
    /\ Len(getEndpoints) > 0

\* C31: a stopServer call made while an earlier stopServer is draining fails with
\* ServerError, as every stopServer outside Running does, and leaves the stop under
\* way as it is: no timer of the first call is cancelled or restarted and no further
\* timer is armed.
C31_SecondStopRejectedWhileDraining ==
    [][(Stopping /\ stopServerStep)
          => /\ last'.op = "stopServer" /\ last'.err = SERVER_ERROR
             /\ stops' = stops]_vars

\* C32: when forceStopServer returns from a call made while a stopServer is
\* draining, neither timer of that stopServer is pending any more.
C32_ForceStopCancelsTimers ==
    [][(Stopping /\ forceStopServerStep /\ last'.err = NoError)
          => \A k \in 1..Len(stops) :
                stops[k].promise = "pending"
                => stops'[k].grace # "pending" /\ stops'[k].force # "pending"]_vars

\* C33: the tracked connection set is non-empty only in Running or Stopping.
C33_ConnectionsOnlyWhileRunningOrStopping ==
    connections # {} => (Running \/ Stopping)

\* C34: a timer of a stopServer that has completed destroys no connection and
\* resets nothing of the controller.
C34_LeftoverTimerTouchesNothing ==
    [][\A k \in 1..Len(stops) :
          (stops[k].promise = "resolved" /\ timerFired(k))
             => UNCHANGED <<sockets, connections, isServerStarted, server, servers>>]_vars

\* C35: whenever isRunning is true the controller holds a handle, and where a
\* listener is bound it is the handle of that listener.
C35_RunningHoldsListenerHandle ==
    isServerStarted => (server # 0 /\ (Listening # {} => server \in Listening))

\* C36: a call of addMultipleMethods or addRoutes that fails has registered nothing:
\* the registry and the router are as before the call and getEndpoints() returns
\* what it returned before.
C36_BulkRegistrationAllOrNothing ==
    [][(last'.op \in {"addMultipleMethods", "addRoutes"} /\ last'.err # NoError)
          => /\ UNCHANGED <<endpoints, router>>
             /\ getEndpoints' = getEndpoints]_vars

\* the handler a definition gives for the j-th of its methods
handlerOf(d, j) ==
    IF d.method.isArray THEN elementAt(callbacksOf(d).items, j) ELSE callbackOf(d)

\* no other definition of the list, and no other entry of the method array, names
\* the path and the j-th method of definition i
namedOnce(routes, i, j) ==
    LET d == routes[i] IN
    /\ \A k \in 1..Len(d.method.items) : k # j => d.method.items[k] # d.method.items[j]
    /\ \A n \in 1..Len(routes) :
          n # i => \/ routes[n].path # d.path
                   \/ \A k \in 1..Len(routes[n].method.items) :
                         routes[n].method.items[k] # d.method.items[j]

\* the functions express calls for a request end with tail, in that order
endsWith(log, tail) ==
    /\ Len(log) >= Len(tail)
    /\ SubSeq(log, Len(log) - Len(tail) + 1, Len(log)) = tail

\* C37: after an accepted addRoutes, for every definition with a middlewares list
\* and every method it gives (one, or each of an array), a request of that method
\* to the definition's path, not served by an earlier registration, runs the
\* definition's middlewares and then its handler.
C37_RouteMiddlewaresRunBeforeHandler ==
    [][\A routes \in {rs \in RouteLists : /\ last'.op = "addRoutes"
                                          /\ last'.err = NoError
                                          /\ last'.args = <<rs>>} :
          addRoutes(routes)
             => \A i \in 1..Len(routes) : \A j \in 1..Len(routes[i].method.items) :
                   LET d == routes[i]
                       method == d.method.items[j]
                       served == routerHandle(router', routerParams', method, d.path)
                   IN (/\ d.middlewares # <<>>
                       /\ namedOnce(routes, i, j)
                       /\ matchingRoutes(router, method, d.path) = {})
                         => /\ served.matched
                            /\ endsWith(served.log, d.middlewares \o <<handlerOf(d, j)>>)]_vars

====
